---- MODULE Spec2Model ----
(***************************************************************************)
(* A model of snapbox's pattern normalisation                              *)
(* (crates/snapbox/src/filter/pattern.rs): line_matches,                   *)
(* normalize_to_pattern and normalize_value_matches.                       *)
(*                                                                         *)
(* Text is a sequence of one-character strings, so that the tokens "[..]", *)
(* "..." and the line terminator are found by scanning characters, as the  *)
(* code finds them.  A JSON value is a record [kind, v].                   *)
(***************************************************************************)
EXTENDS Integers, Sequences, FiniteSets, TLC

VARIABLES
    pc,             \* position of the call: "call"/"start", "loop", "finish", "done"
    redactions,     \* the Redactions passed to the call
    input,          \* normalize_to_pattern / line_matches: `input`
    pattern,        \* normalize_to_pattern / line_matches: `pattern`
    input_lines,    \* normalize_to_pattern: lines of the redacted input
    pattern_lines,  \* normalize_to_pattern: lines of the pattern
    pattern_index,  \* number of pattern lines taken from the iterator
    input_index,    \* normalize_to_pattern: `input_index`
    normalized,     \* normalize_to_pattern: `normalized`
    brk,            \* which `break` (if any) ended the 'outer loop
    actual,         \* normalize_value_matches: `actual`
    expected,       \* normalize_value_matches: `expected`
    result          \* the value returned

vars == <<pc, redactions, input, pattern, input_lines, pattern_lines,
          pattern_index, input_index, normalized, brk, actual, expected, result>>

(***************************************************************************)
(* Bounds of the model.                                                    *)
(***************************************************************************)
MaxCandLen == 3     \* characters of a candidate line (line_matches)
MaxPieces == 3      \* pieces (a character or a token) of a pattern line
MaxLines == 3       \* lines of an input text and of a pattern text
MaxArr == 3         \* elements of a JSON array
MaxObj == 2         \* entries of a JSON object

(***************************************************************************)
(* Strings.                                                                *)
(***************************************************************************)
NL == "\n"
INLINE_WILDCARD == <<"[", ".", ".", "]">>
LINE_ELIDE == <<".", ".", ".">>
PLACEHOLDER == <<"[", "X", "]">>

Drop(s, n) == SubSeq(s, n + 1, Len(s))

Take(s, n) == SubSeq(s, 1, n)

\* str::strip_prefix(p).is_some()
StartsWith(s, p) == Len(p) <= Len(s) /\ Take(s, Len(p)) = p

\* str::find(p): the byte offset of the leftmost occurrence of p in s, -1 for None
Find(s, p) ==
    LET hits == {k \in 0..(Len(s) - Len(p)) : StartsWith(Drop(s, k), p)}
    IN  IF hits = {} THEN -1 ELSE CHOOSE k \in hits : \A j \in hits : k <= j

\* str::split(tok): the sections between the occurrences of tok, left to right
RECURSIVE Split(_, _)
Split(s, tok) ==
    LET k == Find(s, tok)
    IN  IF k < 0 THEN <<s>>
        ELSE <<Take(s, k)>> \o Split(Drop(s, k + Len(tok)), tok)

\* str::replace(from, to) with a non-empty `from`
RECURSIVE Replace(_, _, _)
Replace(s, from, to) ==
    LET k == Find(s, from)
    IN  IF k < 0 THEN s
        ELSE Take(s, k) \o to \o Replace(Drop(s, k + Len(from)), from, to)

\* [&str]::join("")
RECURSIVE Join(_)
Join(ss) == IF ss = <<>> THEN <<>> ELSE Head(ss) \o Join(Tail(ss))

\* crate::utils::LinesWithTerminator: the lines of a text, each with its "\n"
RECURSIVE LinesWithTerminator(_)
LinesWithTerminator(text) ==
    IF text = <<>> THEN <<>>
    ELSE LET k == Find(text, <<NL>>)
         IN  IF k < 0 THEN <<text>>
             ELSE <<Take(text, k + 1)>> \o LinesWithTerminator(Drop(text, k + 1))

(***************************************************************************)
(* Redactions: a sequence of entries [token, value].  An entry with an     *)
(* empty value is registered but unused.                                   *)
(***************************************************************************)
NoRedactions == <<>>
LiteralRedactions == <<[token |-> PLACEHOLDER, value |-> <<"b">>]>>
UnusedRedactions == <<[token |-> PLACEHOLDER, value |-> <<>>]>>

\* Redactions::redact: every occurrence of a value becomes its placeholder
RECURSIVE redact(_, _)
redact(red, text) ==
    IF red = <<>> THEN text
    ELSE LET e == Head(red)
             t == IF e.value = <<>> THEN text ELSE Replace(text, e.value, e.token)
         IN  redact(Tail(red), t)

\* Redactions::clear: the placeholders of unused entries are removed from a pattern
RECURSIVE clear(_, _)
clear(red, pat) ==
    IF red = <<>> THEN pat
    ELSE LET e == Head(red)
             p == IF e.value = <<>> THEN Replace(pat, e.token, <<>>) ELSE pat
         IN  clear(Tail(red), p)

(***************************************************************************)
(* line_matches (pattern.rs 203-227).                                      *)
(***************************************************************************)
\* pattern.rs 213-217: `input` for the next section, given the section after it
Restart(inp, remainder, next_section) ==
    IF next_section = <<>> THEN <<>>
    ELSE IF Find(remainder, next_section) >= 0
         THEN Drop(remainder, Find(remainder, next_section))
         ELSE inp

\* pattern.rs 210-226: the loop over the sections, at section i
RECURSIVE line_matches_sections(_, _, _)
line_matches_sections(inp, sections, i) ==
    IF i > Len(sections) THEN FALSE
    ELSE LET section == sections[i]
         IN  IF StartsWith(inp, section)
             THEN LET remainder == Drop(inp, Len(section))
                  IN  IF i < Len(sections)
                      THEN line_matches_sections(
                               Restart(inp, remainder, sections[i + 1]), sections, i + 1)
                      ELSE remainder = <<>>
             ELSE FALSE

\* a match that accepts any line the pattern line is a prefix of
line_matches_prefix(inp, pat, red) == StartsWith(inp, clear(red, pat))

line_matches(inp, pat, red) ==
    IF inp = pat THEN TRUE
    ELSE line_matches_sections(inp, Split(clear(red, pat), INLINE_WILDCARD), 1)

(***************************************************************************)
(* Inputs of line_matches: candidates over {a, b}, pattern lines made of   *)
(* up to MaxPieces pieces.                                                 *)
(***************************************************************************)
SeqsUpTo(S, n) == UNION {[1..k -> S] : k \in 0..n}

Candidates == SeqsUpTo({"a", "b"}, MaxCandLen)

LinePieces == {<<"a">>, <<"b">>, INLINE_WILDCARD, PLACEHOLDER}

PatternLinesOf(n) == {Join(ps) : ps \in SeqsUpTo(LinePieces, n)}

LineRedactions == {NoRedactions, LiteralRedactions, UnusedRedactions}

Unused == <<>>

InitLine ==
    /\ pc = "call"
    /\ redactions \in LineRedactions
    /\ input \in Candidates
    /\ pattern \in PatternLinesOf(MaxPieces)
    /\ input_lines = Unused /\ pattern_lines = Unused
    /\ pattern_index = 0 /\ input_index = 0
    /\ normalized = Unused /\ brk = "none"
    /\ actual = Unused /\ expected = Unused
    /\ result = Unused

\* a call of line_matches(input, pattern, redactions)
LineMatchesCall ==
    /\ pc = "call"
    /\ result' = line_matches(input, pattern, redactions)
    /\ pc' = "done"
    /\ UNCHANGED <<redactions, input, pattern, input_lines, pattern_lines,
                   pattern_index, input_index, normalized, brk, actual, expected>>

NextLine == LineMatchesCall

SpecLine == InitLine /\ [][NextLine]_vars

(***************************************************************************)
(* normalize_to_pattern (pattern.rs 147-197).  The state of the 'outer     *)
(* loop is a record [pattern_index, input_index, normalized, brk].         *)
(***************************************************************************)
is_line_elide(line) == line = LINE_ELIDE \o <<NL>> \/ line = LINE_ELIDE

\* a scan that keeps the last line that matches instead of stopping at the first
ElideOffsetLast(lines, from, next_pattern_line, red) ==
    LET hits == {k \in 0..(Len(lines) - from - 1) :
                    line_matches(lines[from + k + 1], next_pattern_line, red)}
    IN  IF hits = {} THEN -1 ELSE CHOOSE k \in hits : \A j \in hits : k >= j

\* pattern.rs 161-169: the offset of the first line of lines[from..] that matches
\* next_pattern_line, -1 when the for loop ends without a match
ElideOffset(lines, from, next_pattern_line, red) ==
    LET hits == {k \in 0..(Len(lines) - from - 1) :
                    line_matches(lines[from + k + 1], next_pattern_line, red)}
    IN  IF hits = {} THEN -1 ELSE CHOOSE k \in hits : \A j \in hits : k <= j

\* a push of the input's line instead of the pattern's
EmitInputLine(pattern_line, input_line) == input_line

\* pattern.rs 187: what is pushed for a literal line that matched
EmitLine(pattern_line, input_line) == pattern_line

\* a copy that starts one line late
CopyRemainingOffByOne(lines, idx) == SubSeq(lines, idx + 2, Len(lines))

\* pattern.rs 195: input_lines[input_index..]
CopyRemaining(lines, idx) == SubSeq(lines, idx + 1, Len(lines))

\* pattern.rs 159-178: an iteration whose pattern line is `...`
elide_step(st, il, pl, red) ==
    LET pattern_line == pl[st.pattern_index + 1]
        taken == [st EXCEPT !.pattern_index = @ + 1]
    IN  IF st.pattern_index + 1 < Len(pl)
        THEN LET off == ElideOffset(il, st.input_index, pl[st.pattern_index + 2], red)
             IN  IF off >= 0
                 THEN [taken EXCEPT !.normalized = Append(@, pattern_line),
                                    !.input_index = @ + off]
                 ELSE [taken EXCEPT !.brk = "elide_unmatched"]
        ELSE [taken EXCEPT !.normalized = Append(@, pattern_line),
                           !.input_index = Len(il),
                           !.brk = "elide_last"]

\* pattern.rs 179-192: an iteration whose pattern line is not `...`
literal_step(st, il, pl, red) ==
    LET pattern_line == pl[st.pattern_index + 1]
        taken == [st EXCEPT !.pattern_index = @ + 1]
    IN  IF st.input_index >= Len(il)
        THEN [taken EXCEPT !.brk = "input_exhausted"]
        ELSE IF line_matches(il[st.input_index + 1], pattern_line, red)
             THEN [taken EXCEPT !.input_index = @ + 1,
                                !.normalized = Append(@, EmitLine(pattern_line,
                                                                  il[st.input_index + 1]))]
             ELSE [taken EXCEPT !.brk = "literal_mismatch"]

\* pattern.rs 158: the loop goes on while no break was taken and a pattern line is left
loop_running(st, pl) == st.brk = "none" /\ st.pattern_index < Len(pl)

RECURSIVE outer_loop(_, _, _, _)
outer_loop(st, il, pl, red) ==
    IF ~loop_running(st, pl) THEN st
    ELSE IF is_line_elide(pl[st.pattern_index + 1])
         THEN outer_loop(elide_step(st, il, pl, red), il, pl, red)
         ELSE outer_loop(literal_step(st, il, pl, red), il, pl, red)

LoopStart == [pattern_index |-> 0, input_index |-> 0, normalized |-> <<>>, brk |-> "none"]

normalize_to_pattern(inp, pat, red) ==
    IF inp = pat THEN inp
    ELSE LET il == LinesWithTerminator(redact(red, inp))
             pl == LinesWithTerminator(pat)
             st == outer_loop(LoopStart, il, pl, red)
         IN  Join(st.normalized \o CopyRemaining(il, st.input_index))

(***************************************************************************)
(* Inputs of normalize_to_pattern: texts of up to MaxLines lines, the last *)
(* line with or without its terminator.                                    *)
(***************************************************************************)
TextOf(ls, terminated) ==
    Join([i \in 1..Len(ls) |->
            IF i < Len(ls) \/ terminated THEN ls[i] \o <<NL>> ELSE ls[i]])

TextsOf(contents, n) == {TextOf(ls, t) : ls \in SeqsUpTo(contents, n), t \in BOOLEAN}

InputLineContents == {<<"a">>, <<"b">>}

PatternLineContents ==
    {<<"a">>, <<"b">>, LINE_ELIDE, <<"a">> \o INLINE_WILDCARD, PLACEHOLDER}

TextRedactions == {NoRedactions, LiteralRedactions}

InitText ==
    /\ pc = "start"
    /\ redactions \in TextRedactions
    /\ input \in TextsOf(InputLineContents, MaxLines)
    /\ pattern \in TextsOf(PatternLineContents, MaxLines)
    /\ input_lines = Unused /\ pattern_lines = Unused
    /\ pattern_index = 0 /\ input_index = 0
    /\ normalized = Unused /\ brk = "none"
    /\ actual = Unused /\ expected = Unused
    /\ result = Unused

LoopState ==
    [pattern_index |-> pattern_index, input_index |-> input_index,
     normalized |-> normalized, brk |-> brk]

\* pattern.rs 148-150: the input is the pattern
NtpFastPath ==
    /\ pc = "start"
    /\ input = pattern
    /\ result' = input
    /\ pc' = "done"
    /\ UNCHANGED <<redactions, input, pattern, input_lines, pattern_lines,
                   pattern_index, input_index, normalized, brk, actual, expected>>

\* pattern.rs 152-157: redact the input, split both texts
NtpStart ==
    /\ pc = "start"
    /\ input # pattern
    /\ input_lines' = LinesWithTerminator(redact(redactions, input))
    /\ pattern_lines' = LinesWithTerminator(pattern)
    /\ pattern_index' = LoopStart.pattern_index
    /\ input_index' = LoopStart.input_index
    /\ normalized' = LoopStart.normalized
    /\ brk' = LoopStart.brk
    /\ pc' = "loop"
    /\ UNCHANGED <<redactions, input, pattern, actual, expected, result>>

LoopUpdate(st) ==
    /\ pattern_index' = st.pattern_index
    /\ input_index' = st.input_index
    /\ normalized' = st.normalized
    /\ brk' = st.brk
    /\ pc' = IF st.brk = "none" THEN "loop" ELSE "finish"
    /\ UNCHANGED <<redactions, input, pattern, input_lines, pattern_lines,
                   actual, expected, result>>

\* pattern.rs 159-178
NtpElide ==
    /\ pc = "loop"
    /\ loop_running(LoopState, pattern_lines)
    /\ is_line_elide(pattern_lines[pattern_index + 1])
    /\ LoopUpdate(elide_step(LoopState, input_lines, pattern_lines, redactions))

\* pattern.rs 179-192
NtpLiteral ==
    /\ pc = "loop"
    /\ loop_running(LoopState, pattern_lines)
    /\ ~is_line_elide(pattern_lines[pattern_index + 1])
    /\ LoopUpdate(literal_step(LoopState, input_lines, pattern_lines, redactions))

\* pattern.rs 195-196: after the loop, copy the remaining lines and join
NtpFinish ==
    /\ pc \in {"loop", "finish"}
    /\ ~loop_running(LoopState, pattern_lines)
    /\ normalized' = normalized \o CopyRemaining(input_lines, input_index)
    /\ result' = Join(normalized')
    /\ pc' = "done"
    /\ UNCHANGED <<redactions, input, pattern, input_lines, pattern_lines,
                   pattern_index, input_index, brk, actual, expected>>

NextText == NtpFastPath \/ NtpStart \/ NtpElide \/ NtpLiteral \/ NtpFinish

SpecText == InitText /\ [][NextText]_vars


(***************************************************************************)
(* Properties of normalize_to_pattern, checked under SpecText.             *)
(***************************************************************************)
\* the number of pattern lines pushed to `normalized` by the loop
Emitted == IF brk \in {"none", "elide_last"} THEN pattern_index ELSE pattern_index - 1

NtpReturned == pc = "done" /\ input # pattern

RedactedLines == LinesWithTerminator(redact(redactions, input))

\* C2: the result is the pattern lines of the matched positions (all of them when
\* the actual is the pattern) followed by every
\* line of the redacted actual from the final cursor on, verbatim and in order;
\* the cursor stands at the end with no line copied only when the last actual
\* line was accepted by a literal pattern line, or when the last pattern line
\* is an elision that was reached with every pattern line before it accepted.
C2_NoLoss ==
    /\ (pc = "done" /\ input = pattern => result = pattern)
    /\ NtpReturned =>
        /\ input_index <= Len(RedactedLines)
        /\ result = Join(SubSeq(LinesWithTerminator(pattern), 1, Emitted))
                    \o Join(SubSeq(RedactedLines, input_index + 1, Len(RedactedLines)))
        /\ (brk = "elide_last" =>
                /\ Emitted = Len(LinesWithTerminator(pattern))
                /\ is_line_elide(LinesWithTerminator(pattern)[Emitted]))
        /\ (brk # "elide_last" /\ input_index = Len(RedactedLines) /\ input_index > 0 =>
                /\ Emitted > 0
                /\ ~is_line_elide(LinesWithTerminator(pattern)[Emitted])
                /\ line_matches(RedactedLines[input_index],
                                LinesWithTerminator(pattern)[Emitted], redactions))

\* a give-up after a matched line, with redacted actual lines left to copy
C2_Witness ==
    /\ NtpReturned
    /\ brk \in {"literal_mismatch", "elide_unmatched"}
    /\ Emitted > 0
    /\ Len(input_lines) - input_index >= 2
    /\ redact(redactions, input) # input

\* C4: when every pattern line was accepted and the cursor stands at the end of
\* the actual lines, the result is the pattern text; and what the loop has pushed
\* is always the pattern's own lines.
C4_FullMatch ==
    /\ (pc \in {"loop", "finish"} =>
            normalized = SubSeq(LinesWithTerminator(pattern), 1, Len(normalized)))
    /\ (/\ NtpReturned
        /\ brk \in {"none", "elide_last"}
        /\ pattern_index = Len(pattern_lines)
        /\ input_index = Len(input_lines)
        => result = pattern)

\* a full match through an inline wildcard and an elision that covers a line
C4_Witness ==
    /\ NtpReturned
    /\ brk = "none"
    /\ pattern_index = Len(pattern_lines)
    /\ input_index = Len(input_lines)
    /\ Len(input_lines) > Len(pattern_lines) - 1
    /\ \E i \in 1..Len(pattern_lines) : is_line_elide(pattern_lines[i])
    /\ \E i \in 1..Len(pattern_lines) : Find(pattern_lines[i], INLINE_WILDCARD) >= 0

NoMarkers(pat) ==
    /\ Find(pat, INLINE_WILDCARD) < 0
    /\ \A i \in 1..Len(LinesWithTerminator(pat)) :
           ~is_line_elide(LinesWithTerminator(pat)[i])

\* C5: with no redactions, a pattern with no `...` line and no `[..]` token
\* leaves the actual text unchanged.
C5_NoMarkersIdentity ==
    pc = "done" /\ redactions = NoRedactions /\ NoMarkers(pattern) => result = input

\* a marker-free pattern that matches the first line and diverges after it
C5_Witness ==
    /\ NtpReturned
    /\ redactions = NoRedactions
    /\ NoMarkers(pattern)
    /\ Emitted > 0
    /\ brk \in {"literal_mismatch", "input_exhausted"}

\* the 1-based indices of the actual lines, from the cursor on, that match the
\* pattern line after the elision being processed
ElideCandidates ==
    {j \in (input_index + 1)..Len(input_lines) :
        line_matches(input_lines[j], pattern_lines[pattern_index + 2], redactions)}

\* C8: an elision followed by pattern line L moves the cursor forward to the
\* first actual line at or after it that matches L and pushes the marker once;
\* with no such line the loop stops and the cursor stays.
C8_ElideFirstMatch ==
    [][(/\ pc = "loop"
        /\ pattern_index + 1 < Len(pattern_lines)
        /\ is_line_elide(pattern_lines[pattern_index + 1]))
       => IF ElideCandidates = {}
          THEN /\ pc' = "finish"
               /\ input_index' = input_index
               /\ normalized' = normalized
          ELSE /\ pc' = "loop"
               /\ input_index' >= input_index
               /\ input_index' + 1 \in ElideCandidates
               /\ \A j \in ElideCandidates : input_index' + 1 <= j
               /\ normalized' = Append(normalized, pattern_lines[pattern_index + 1])]_vars

\* an elision has just skipped a line, and a later line would also have matched
C8_Witness ==
    /\ pc = "loop"
    /\ pattern_index >= 1
    /\ pattern_index < Len(pattern_lines)
    /\ is_line_elide(pattern_lines[pattern_index])
    /\ input_index >= 1
    /\ \E j \in (input_index + 2)..Len(input_lines) :
           line_matches(input_lines[j], pattern_lines[pattern_index + 1], redactions)

(***************************************************************************)
(* Properties of line_matches, checked under SpecLine.                     *)
(***************************************************************************)
\* rest can be written as x1 s_i x2 s_(i+1) ... xn s_n for some strings x1..xn
RECURSIVE FillsFrom(_, _, _)
FillsFrom(rest, sections, i) ==
    IF i > Len(sections) THEN rest = <<>>
    ELSE \E k \in 0..Len(rest) :
            /\ StartsWith(Drop(rest, k), sections[i])
            /\ FillsFrom(Drop(rest, k + Len(sections[i])), sections, i + 1)

\* the candidate is the pattern with each `[..]` replaced by some string
Fills(candidate, pat) ==
    LET sections == Split(pat, INLINE_WILDCARD)
    IN  /\ StartsWith(candidate, sections[1])
        /\ FillsFrom(Drop(candidate, Len(sections[1])), sections, 2)

\* C3: with no redactions, line_matches is true exactly when the candidate is the
\* pattern with each `[..]` replaced by a string of zero or more characters.
C3_InlineWildcard ==
    pc = "done" /\ redactions = NoRedactions => (result <=> Fills(input, pattern))

\* some non-empty section from the i-th on is not found in what is left of the
\* candidate once the sections before it were consumed, leftmost occurrence first
RECURSIVE SectionMissing(_, _, _)
SectionMissing(rest, sections, i) ==
    IF i > Len(sections) THEN FALSE
    ELSE IF sections[i] = <<>> THEN SectionMissing(rest, sections, i + 1)
    ELSE IF Find(rest, sections[i]) < 0 THEN TRUE
    ELSE SectionMissing(Drop(rest, Find(rest, sections[i]) + Len(sections[i])),
                        sections, i + 1)

\* C9: with no redactions and a candidate other than the pattern, when the first
\* section is a prefix of the candidate and a later non-empty section does not
\* occur in the unconsumed remainder, line_matches is false.
C9_MissingSectionFails ==
    LET sections == Split(pattern, INLINE_WILDCARD)
    IN  (/\ pc = "done"
         /\ redactions = NoRedactions
         /\ input # pattern
         /\ StartsWith(input, sections[1])
         /\ SectionMissing(Drop(input, Len(sections[1])), sections, 2))
        => result = FALSE

\* the pattern with its leftmost pair of adjacent wildcards replaced by one
CollapseWildcards(pat) ==
    LET k == Find(pat, INLINE_WILDCARD \o INLINE_WILDCARD)
    IN  IF k < 0 THEN pat ELSE Take(pat, k) \o Drop(pat, k + Len(INLINE_WILDCARD))

\* C10: line_matches gives the same result for a pattern with adjacent wildcards
\* as for the pattern with the pair replaced by one wildcard, and the pattern
\* `[..]` matches every candidate.
C10_WildcardsCollapse ==
    pc = "done" =>
        /\ result = line_matches(input, CollapseWildcards(pattern), redactions)
        /\ (pattern = INLINE_WILDCARD => result = TRUE)

(***************************************************************************)
(* normalize_value_matches (pattern.rs 76-145).  A serde_json::Value is a  *)
(* record [kind, v]: a number, a string, an array (a sequence of values)   *)
(* or an object (a sequence of entries [key, value] with distinct keys, in *)
(* the order the map iterates them).  Panicked stands for a call that      *)
(* panicked instead of returning.                                          *)
(***************************************************************************)
KEY_WILDCARD == <<".", ".", ".">>
VALUE_WILDCARD == <<"{", ".", ".", ".", "}">>

Num(n) == [kind |-> "num", v |-> n]
Str(s) == [kind |-> "str", v |-> s]
Arr(es) == [kind |-> "arr", v |-> es]
Obj(entries) == [kind |-> "obj", v |-> entries]
Panicked == [kind |-> "panic", v |-> <<>>]

IsPanic(value) == value.kind = "panic"

\* pattern.rs 87, 94: `e == VALUE_WILDCARD`
IsValueWildcard(e) == e.kind = "str" /\ e.v = VALUE_WILDCARD

\* serde_json::Map::get: the index of the entry with this key, 0 for None
KeyIndex(entries, key) ==
    IF \E i \in 1..Len(entries) : entries[i].key = key
    THEN CHOOSE i \in 1..Len(entries) : entries[i].key = key
    ELSE 0

\* serde_json::Map::insert: the value of an existing key is replaced
MapInsert(entries, key, value) ==
    IF KeyIndex(entries, key) > 0
    THEN [entries EXCEPT ![KeyIndex(entries, key)].value = value]
    ELSE Append(entries, [key |-> key, value |-> value])

\* PartialEq of serde_json::Value (pattern.rs 116: `v == first`)
RECURSIVE ValueEq(_, _)
ValueEq(a, b) ==
    /\ a.kind = b.kind
    /\ CASE a.kind = "arr" ->
              /\ Len(a.v) = Len(b.v)
              /\ \A i \in 1..Len(a.v) : ValueEq(a.v[i], b.v[i])
         [] a.kind = "obj" ->
              /\ Len(a.v) = Len(b.v)
              /\ \A i \in 1..Len(a.v) :
                    /\ KeyIndex(b.v, a.v[i].key) > 0
                    /\ ValueEq(a.v[i].value, b.v[KeyIndex(b.v, a.v[i].key)].value)
         [] OTHER -> a.v = b.v

\* pattern.rs 94: exp.split(|e| e == VALUE_WILDCARD)
RECURSIVE SplitSections(_)
SplitSections(exp) ==
    IF \E i \in 1..Len(exp) : IsValueWildcard(exp[i])
    THEN LET k == CHOOSE i \in 1..Len(exp) :
                     /\ IsValueWildcard(exp[i])
                     /\ \A j \in 1..(i - 1) : ~IsValueWildcard(exp[j])
         IN  <<Take(exp, k - 1)>> \o SplitSections(Drop(exp, k))
    ELSE <<exp>>

\* pattern.rs 116: act.iter().position(|v| v == first), -1 for None
Position(act, first) ==
    LET hits == {k \in 0..(Len(act) - 1) : ValueEq(act[k + 1], first)}
    IN  IF hits = {} THEN -1 ELSE CHOOSE k \in hits : \A j \in hits : k <= j

\* pattern.rs 88, 110, 117, 140
WildcardValue == Str(VALUE_WILDCARD)

\* pattern.rs 128-129
has_key_wildcard(exp) ==
    /\ KeyIndex(exp, KEY_WILDCARD) > 0
    /\ exp[KeyIndex(exp, KEY_WILDCARD)].value.kind = "str"
    /\ exp[KeyIndex(exp, KEY_WILDCARD)].value.v = VALUE_WILDCARD

RECURSIVE normalize_value_matches(_, _, _)

\* pattern.rs 98-104: the values of the current section; the slice
\* act[processed..processed + len] panics when it ends past the array
array_section(st, expected_subset, red) ==
    IF expected_subset = <<>> THEN st
    ELSE IF st.processed + Len(expected_subset) > Len(st.act)
         THEN [st EXCEPT !.panicked = TRUE]
         ELSE LET new == [j \in 1..Len(st.act) |->
                            IF j > st.processed /\ j <= st.processed + Len(expected_subset)
                            THEN normalize_value_matches(
                                     st.act[j], expected_subset[j - st.processed], red)
                            ELSE st.act[j]]
              IN  IF \E j \in 1..Len(new) : IsPanic(new[j])
                  THEN [st EXCEPT !.panicked = TRUE]
                  ELSE [st EXCEPT !.act = new,
                                  !.processed = @ + Len(expected_subset)]

\* pattern.rs 106-124: the wildcard before next_section; a splice panics when
\* its range starts after its end or ends past the array
array_wildcard(st, next_section) ==
    IF next_section = <<>>
    THEN IF st.processed > Len(st.act)
         THEN [st EXCEPT !.panicked = TRUE]
         ELSE [st EXCEPT !.act = Take(st.act, st.processed) \o <<WildcardValue>>,
                         !.processed = @ + 1]
    ELSE LET index == Position(st.act, next_section[1])
         IN  IF index < 0 THEN [st EXCEPT !.stopped = TRUE]
             ELSE IF st.processed > index
                  THEN [st EXCEPT !.panicked = TRUE]
                  ELSE [st EXCEPT !.act = Take(st.act, st.processed)
                                          \o <<WildcardValue>> \o Drop(st.act, index),
                                  !.processed = @ + 1]

\* pattern.rs 96-125: the loop over the sections, at section i
RECURSIVE array_loop(_, _, _, _)
array_loop(st, sections, i, red) ==
    IF i > Len(sections) THEN st
    ELSE LET s1 == array_section(st, sections[i], red)
         IN  IF s1.panicked \/ i = Len(sections) THEN s1
             ELSE LET s2 == array_wildcard(s1, sections[i + 1])
                  IN  IF s2.panicked \/ s2.stopped THEN s2
                      ELSE array_loop(s2, sections, i + 1, red)

\* pattern.rs 93-126
normalize_array(act, exp, red) ==
    LET st == array_loop([act |-> act, processed |-> 0,
                          panicked |-> FALSE, stopped |-> FALSE],
                         SplitSections(exp), 1, red)
    IN  IF st.panicked THEN Panicked ELSE Arr(st.act)

\* pattern.rs 130-138: the loop over the entries of the actual, at entry i
RECURSIVE object_loop(_, _, _, _, _)
object_loop(out, act, i, exp, red) ==
    IF i > Len(act) THEN out
    ELSE LET actual_key == redact(red, act[i].key)
             e == KeyIndex(exp, actual_key)
         IN  IF e > 0
             THEN LET value == normalize_value_matches(act[i].value, exp[e].value, red)
                  IN  IF IsPanic(value)
                      THEN [out EXCEPT !.panicked = TRUE]
                      ELSE object_loop(
                               [out EXCEPT !.entries = MapInsert(@, actual_key, value)],
                               act, i + 1, exp, red)
             ELSE IF has_key_wildcard(exp)
                  THEN object_loop(out, act, i + 1, exp, red)
                  ELSE object_loop(
                           [out EXCEPT !.entries = MapInsert(@, actual_key, act[i].value)],
                           act, i + 1, exp, red)

\* pattern.rs 127-142
normalize_object(act, exp, red) ==
    LET out == object_loop([entries |-> <<>>, panicked |-> FALSE], act, 1, exp, red)
    IN  IF out.panicked THEN Panicked
        ELSE IF has_key_wildcard(exp)
             THEN Obj(MapInsert(out.entries, KEY_WILDCARD, WildcardValue))
             ELSE Obj(out.entries)

\* pattern.rs 86-144
normalize_value_matches(act, exp, red) ==
    IF IsValueWildcard(exp) THEN WildcardValue
    ELSE IF act.kind = "str" /\ exp.kind = "str"
         THEN Str(normalize_to_pattern(act.v, exp.v, red))
    ELSE IF act.kind = "arr" /\ exp.kind = "arr"
         THEN normalize_array(act.v, exp.v, red)
    ELSE IF act.kind = "obj" /\ exp.kind = "obj"
         THEN normalize_object(act.v, exp.v, red)
    ELSE act

(***************************************************************************)
(* Inputs of normalize_value_matches: scalars, arrays of up to MaxArr      *)
(* elements and objects of up to MaxObj entries.                           *)
(***************************************************************************)
ActualElements == {Num(1), Num(2), Str(<<"a">>)}

ExpectedElements == {Num(1), Num(2), Str(<<"a">> \o INLINE_WILDCARD), WildcardValue}

ActualKeys == {<<"a">>, <<"b">>, PLACEHOLDER, KEY_WILDCARD}

ExpectedKeys == {<<"a">>, PLACEHOLDER, KEY_WILDCARD}

ActualMembers == {Num(1), Str(<<"a">>), Arr(<<Num(1)>>)}

ExpectedMembers == {Num(1), WildcardValue, Arr(<<Num(1), Num(2)>>)}

ObjectsOf(keys, values, n) ==
    {Obj(es) : es \in {s \in SeqsUpTo([key : keys, value : values], n) :
                          \A i, j \in 1..Len(s) : s[i].key = s[j].key => i = j}}

ArraysOf(elements, n) == {Arr(es) : es \in SeqsUpTo(elements, n)}

ActualValues ==
    ActualElements \cup ArraysOf(ActualElements, MaxArr)
        \cup ObjectsOf(ActualKeys, ActualMembers, MaxObj)

ExpectedValues ==
    ExpectedElements \cup ArraysOf(ExpectedElements, MaxArr)
        \cup ObjectsOf(ExpectedKeys, ExpectedMembers, MaxObj)

InitValue ==
    /\ pc = "call"
    /\ redactions \in TextRedactions
    /\ actual \in ActualValues
    /\ expected \in ExpectedValues
    /\ input = Unused /\ pattern = Unused
    /\ input_lines = Unused /\ pattern_lines = Unused
    /\ pattern_index = 0 /\ input_index = 0
    /\ normalized = Unused /\ brk = "none"
    /\ result = Unused

\* a call of normalize_value_matches(&mut actual, expected, redactions)
NormalizeValueCall ==
    /\ pc = "call"
    /\ result' = normalize_value_matches(actual, expected, redactions)
    /\ pc' = "done"
    /\ UNCHANGED <<redactions, input, pattern, input_lines, pattern_lines,
                   pattern_index, input_index, normalized, brk, actual, expected>>

NextValue == NormalizeValueCall

SpecValue == InitValue /\ [][NextValue]_vars

(***************************************************************************)
(* Properties of normalize_value_matches, checked under SpecValue.         *)
(***************************************************************************)
\* C1: normalisation is total: whatever the actual and the pattern value are,
\* the call returns a normalised value and does not panic.
C1_Total == pc = "done" => ~IsPanic(result)

\* expected is run1 ++ [wildcard] ++ run2 with n1 = Len(run1), and actual is
\* run1 ++ middle ++ run2, where the runs hold no wildcard, run2 is not empty
\* and its first element does not occur in middle
RunsAround(act, exp, n1) ==
    LET run1 == Take(exp, n1)
        run2 == Drop(exp, n1 + 1)
        middle == SubSeq(act, n1 + 1, Len(act) - Len(run2))
    IN  /\ IsValueWildcard(exp[n1 + 1])
        /\ run2 # <<>>
        /\ \A i \in 1..Len(exp) : i # n1 + 1 => ~IsValueWildcard(exp[i])
        /\ Len(act) >= Len(run1) + Len(run2)
        /\ \A i \in 1..Len(run1) : ValueEq(act[i], run1[i])
        /\ \A i \in 1..Len(run2) : ValueEq(act[Len(act) - Len(run2) + i], run2[i])
        /\ \A i \in 1..Len(middle) : ~ValueEq(middle[i], run2[1])

\* C6: an actual array run1 ++ middle ++ run2 normalised against
\* run1 ++ ["{...}"] ++ run2 yields the pattern: the elements between the cursor
\* and the leftmost element, at or after the cursor, that equals the first
\* element of run2 become one wildcard element.
C6_ArrayCollapse ==
    (/\ pc = "done"
     /\ actual.kind = "arr"
     /\ expected.kind = "arr")
    => \A n1 \in 0..(Len(expected.v) - 2) :
           RunsAround(actual.v, expected.v, n1) => ValueEq(result, expected)

\* the pattern object has key `...` with value `{...}`
WildcardKeyMode(exp) ==
    \E i \in 1..Len(exp) : exp[i].key = KEY_WILDCARD /\ IsValueWildcard(exp[i].value)

\* the entries of the actual whose redacted key is key
EntriesFor(act, key, red) == {j \in 1..Len(act) : redact(red, act[j].key) = key}

\* C7: for objects, an actual entry whose redacted key the pattern defines is kept
\* with its value normalised against the pattern's value; an entry whose key the
\* pattern does not define is dropped when the pattern has `...` -> `{...}` and
\* kept unmodified otherwise; no other key appears; and with `...` -> `{...}`
\* in the pattern the output has the entry `...` -> `{...}`.
C7_ObjectWildcardKey ==
    (/\ pc = "done"
     /\ actual.kind = "obj"
     /\ expected.kind = "obj")
    => /\ result.kind = "obj"
       /\ \A i \in 1..Len(actual.v) :
             LET key == redact(redactions, actual.v[i].key)
                 e == KeyIndex(expected.v, key)
                 r == KeyIndex(result.v, key)
             IN  IF e > 0
                 THEN /\ r > 0
                      /\ \E j \in EntriesFor(actual.v, key, redactions) :
                            ValueEq(result.v[r].value,
                                    normalize_value_matches(actual.v[j].value,
                                                            expected.v[e].value,
                                                            redactions))
                 ELSE IF WildcardKeyMode(expected.v)
                      THEN r = 0
                      ELSE /\ r > 0
                           /\ \E j \in EntriesFor(actual.v, key, redactions) :
                                 ValueEq(result.v[r].value, actual.v[j].value)
       /\ \A r \in 1..Len(result.v) :
             \/ WildcardKeyMode(expected.v) /\ result.v[r].key = KEY_WILDCARD
             \/ EntriesFor(actual.v, result.v[r].key, redactions) # {}
       /\ (WildcardKeyMode(expected.v) =>
             /\ KeyIndex(result.v, KEY_WILDCARD) > 0
             /\ IsValueWildcard(result.v[KeyIndex(result.v, KEY_WILDCARD)].value))

====
